---- MODULE Spec2Model ----
(***************************************************************************)
(* I2C master multi-burst transaction engine of LaunchPad.c:               *)
(* I2C_fill_tx_fifo, I2C_mstr_send_internal, I2C_mstr_read_internal and    *)
(* the ten public wrappers, stepped statement by statement against a       *)
(* simulated I2C controller (status flags, two 8-entry FIFOs), a bus       *)
(* monitor and a slave that stores what it receives.                       *)
(***************************************************************************)
EXTENDS Integers, Sequences, FiniteSets, TLC

\* ------------------------------------------------------------ constants
\* I2C return codes and the poll budget (LaunchPad.h)
I2C_SUCCESS == 0
I2C_ERR_ARB_LOST == 1
I2C_ERR_NACK == 2
I2C_FIFO_LOAD_ERROR == 3
I2C_ERR_TIMEOUT == 4
I2C_TIMEOUT_COUNT == 200000

\* i2c_burst_type_t
I2C_NORMAL == 0
I2C_START == 1
I2C_CONTINUE == 2
I2C_END == 3

\* hardware queue depth (I2C_MFIFOSR_TXFIFOCNT_MAXIMUM: "max 8 bytes")
FIFO_DEPTH == 8

\* direction bit of the slave address register
I2C_MSA_DIR_TRANSMIT == 0
I2C_MSA_DIR_RECEIVE == 1

\* lcd1602.h / lcd1602.c
LCD_IIC_ADDRESS == 39
NIBBLE_SHIFT == 4
UPPER_NIBBLE_MASK == 240
LOWER_NIBBLE_MASK == 15
READ_ENABLE == 2
WRITE_ENABLE == 0
LATCH_ENABLE == 4
LCD_INSTR_REG == 0
LCD_DATA_REG == 1
LCD_BACKLIGHT_BIT_MASK == 8
MAX_NUM_CMDS == 8

\* ------------------------------------------------------------ bounds
\* longest buffer a caller passes (one more than the queue holds)
MaxLen == 9

BurstTypes == {I2C_NORMAL, I2C_START, I2C_CONTINUE, I2C_END}
\* 7-bit slave addresses the callers use: the LCD backpack and the largest
Addrs == {39, 127}
\* first byte of the caller's buffers
FirstBytes == {12, 170}
\* the value a poll input takes when the flag never changes
Never == 0 - 1
\* caller's buffer element that was never written
Unset == 0 - 1

\* the caller's buffer: n consecutive byte values starting at first
Buf(first, n) == [k \in 1..n |-> (first + k - 1) % 256]

\* --timeout on a uint32_t, kept as its 32-bit pattern: only the comparison
\* with 0 reads it, and 0 - 1 (0xFFFFFFFF) is written -1
Dec32(t) == t - 1

VARIABLES
  pc,          \* position in the running call; "ready" before, "done" after
  fn,          \* the public function that was called
  op,          \* "send" or "read": which internal function runs
  slave, data, length, i2c_type,    \* arguments of the internal function
  ret_status, timeout, fill_status, i, idx,   \* its locals
  buffer,      \* the caller's receive buffer
  result,      \* the value the call returned
  MSA, MCTR,   \* slave address and control registers
  txflush, rxflush,                 \* MFIFOCTL flush bits
  txfifo, rxfifo,                   \* the two hardware queues
  arblst, err,                      \* MSR error flags
  idleIn, busyIn,                   \* polls left until MSR.IDLE reads set / MSR.BUSY reads clear
  busOwned,    \* a START was issued with no STOP after it
  wire,        \* bus monitor: conditions and bytes seen on the bus
  slaveMem,    \* what the slave stored from the last write transaction
  polls,       \* reads of the idle flag made by the running call
  busyPolls,   \* reads of the busy flag made by the running call
  trace,       \* register accesses of the running call, in order
  faulty,      \* some burst since power-on ended with an error flag set
  script,      \* the calls a scripted caller makes, in order (<<>>: a free caller)
  calls,       \* calls made since power-on
  g_lcd_backlight_mode,             \* the LCD driver's only global
  lpc,         \* position in the LCD driver; "idle" before a call, "returned" after
  lfn,         \* the LCD function the application called
  lcaller,     \* who called the running lcd1602_write / lcd_set_backlight_on: "app" or "init"
  init_status, index,               \* locals of lcd1602_init
  iic_addr, lcd_data, reg_select,   \* arguments of lcd1602_write
  status, upper_nibble, lower_nibble, wstep,  \* its locals, and the send it is at
  lret,        \* the value the application's call returned
  sends,       \* the send1 calls the application's call made: <<address, byte>> each
  anyFailed    \* one of them returned something else than I2C_SUCCESS

swVars == <<fn, op, slave, data, length, i2c_type, ret_status, timeout, fill_status, i, idx>>
hwRegs == <<MSA, MCTR, txflush, rxflush, txfifo, rxfifo, arblst, err>>
envVars == <<idleIn, busyIn>>
busVars == <<busOwned, wire, slaveMem, faulty>>
lcdVars == <<g_lcd_backlight_mode, lpc, lfn, lcaller, init_status, index, iic_addr, lcd_data,
             reg_select, status, upper_nibble, lower_nibble, wstep, lret, sends, anyFailed>>
callerVars == <<script, calls, lcdVars>>
vars == <<pc, swVars, buffer, result, hwRegs, envVars, busVars, polls, busyPolls, trace, callerVars>>

Ev(name, val) == <<name, val>>
\* a | b and a & b on 8-bit values, (a << n) kept in a uint8_t
BitAt(n, k) == (n \div (2 ^ k)) % 2
Or8(a, b) ==
  LET B(k) == IF BitAt(a, k) = 1 \/ BitAt(b, k) = 1 THEN 2 ^ k ELSE 0
  IN B(0) + B(1) + B(2) + B(3) + B(4) + B(5) + B(6) + B(7)
And8(a, b) ==
  LET B(k) == IF BitAt(a, k) = 1 /\ BitAt(b, k) = 1 THEN 2 ^ k ELSE 0
  IN B(0) + B(1) + B(2) + B(3) + B(4) + B(5) + B(6) + B(7)
Shl8(a, n) == (a * (2 ^ n)) % 256
Min(a, b) == IF a < b THEN a ELSE b
SubSeqFrom(s, k) == IF k > Len(s) THEN <<>> ELSE SubSeq(s, k, Len(s))

\* ------------------------------------------------------------ hardware
\* MFIFOSR.TXFIFOCNT: free entries of the transmit queue
TXFIFOCNT == FIFO_DEPTH - Len(txfifo)
\* MFIFOSR.RXFIFOCNT: bytes waiting in the receive queue
RXFIFOCNT == Len(rxfifo)
\* MSR.IDLE reads cleared while the bus has not gone idle
IdleCleared == idleIn # 0
\* a busy flag the wait never sees set
BusySet_NeverSeen == FALSE

\* MSR.BUSY reads set while the burst is in flight
BusySet == busyIn # 0
\* one more poll has gone by
Tick(n) == IF n = Never \/ n = 0 THEN n ELSE n - 1

\* what the slave returns on a read burst: what it stored, then 0xFF
SlaveByte(k) == IF k <= Len(slaveMem) THEN slaveMem[k] ELSE 255

\* The controller runs the burst programmed in MCTR to the address in MSA.
\* flags: the error flags the burst ends with, and whether an arbitration
\* loss came late, on the not-acknowledge bit that closes a receive, with
\* every byte already in the queue; busy: polls the burst stays in flight.
BurstRun(msa, mctr, flags, busy) ==
  LET ok == ~flags.arblst /\ ~flags.err
      transmit == (msa % 2) = I2C_MSA_DIR_TRANSMIT
      ntx == IF ok /\ transmit THEN Min(mctr.mblen, Len(txfifo)) ELSE 0
      nrx == IF (ok \/ flags.late) /\ ~transmit THEN Min(mctr.mblen, FIFO_DEPTH - Len(rxfifo)) ELSE 0
      sent == SubSeq(txfifo, 1, ntx)
      rcvd == [k \in 1..nrx |-> SlaveByte(k)]
      startEv == IF mctr.start
                 THEN <<Ev(IF busOwned THEN "RSTART" ELSE "START", 0), Ev("ADDR", msa)>>
                 ELSE <<>>
      dataEv == [k \in 1..(ntx + nrx) |->
                   IF transmit THEN Ev("TX", sent[k]) ELSE Ev("RX", rcvd[k])]
      stopEv == IF mctr.stop /\ ~flags.arblst THEN <<Ev("STOP", 0)>> ELSE <<>>
  IN /\ wire' = wire \o startEv \o dataEv \o stopEv
     /\ txfifo' = SubSeqFrom(txfifo, ntx + 1)
     /\ rxfifo' = rxfifo \o rcvd
     /\ slaveMem' = IF ntx = 0 THEN slaveMem
                    ELSE IF mctr.start /\ ~busOwned THEN sent ELSE slaveMem \o sent
     /\ busOwned' = IF flags.arblst THEN FALSE ELSE ~mctr.stop
     /\ arblst' = flags.arblst
     /\ err' = flags.err
     /\ busyIn' = busy
     /\ faulty' = (faulty \/ flags.arblst \/ flags.err)

\* TXFLUSH set in MFIFOCTL empties the transmit queue. (The receive queue is
\* empty whenever a call starts: a successful receive drains all it asked
\* for, and a burst of a scripted caller that ends with an error flag delivers
\* nothing.)
HwTxFlush ==
  /\ txflush /\ txfifo # <<>>
  /\ txfifo' = <<>>
  /\ UNCHANGED <<pc, swVars, buffer, result, MSA, MCTR, txflush, rxflush, rxfifo,
                 arblst, err, envVars, busVars, polls, busyPolls, trace, callerVars>>

\* ------------------------------------------------------------ inputs
\* The long waits (a flag that stays put for a whole countdown) are explored
\* for one-byte calls to the first address, made on a bus nobody used before.
FreshBus == script = <<>> /\ ~busOwned /\ slaveMem = <<>> /\ ~arblst /\ ~err
LongWaitArgs(s, d, len) == s = 39 /\ len = 1 /\ d \in {<<>>, <<12>>}
\* polls that read IDLE cleared before one reads it set (Never: none does)
IdleInputs(s, d, len, ty) ==
  IF ty = I2C_NORMAL
  THEN {0, 1} \cup (IF LongWaitArgs(s, d, len) /\ FreshBus /\ txfifo = <<>>
                   THEN {I2C_TIMEOUT_COUNT - 1, Never} ELSE {})
  ELSE {0, Never}
\* polls that read BUSY set before one reads it clear (Never: none does)
BusyInputs(flags) ==
  {0, 1} \cup (IF /\ LongWaitArgs(slave, data, length) /\ FreshBus
                  /\ polls <= 1 /\ idleIn = 0
                  /\ ~flags.arblst /\ ~flags.err
                  /\ fn \in {"send1", "send_start", "send_continue", "send_end", "read1"}
               THEN {Never} ELSE {})
\* (a late arbitration loss is explored for the receive of a free caller)
FlagInputs ==
  {f \in [arblst : BOOLEAN, err : BOOLEAN, late : BOOLEAN] :
     f.late => f.arblst /\ op = "read" /\ script = <<>>}

\* ------------------------------------------------------------ calls
\* entry of I2C_mstr_send_internal / I2C_mstr_read_internal: arguments and
\* the initialised locals
Enter(o, s, d, len, ty) ==
  /\ op' = o
  /\ slave' = s /\ data' = d /\ length' = len /\ i2c_type' = ty
  /\ ret_status' = I2C_SUCCESS
  /\ timeout' = I2C_TIMEOUT_COUNT
  /\ fill_status' = 1
  /\ i' = 0 /\ idx' = 0
  /\ buffer' = IF o = "read" THEN [k \in 1..len |-> Unset] ELSE <<>>
  /\ result' = Unset
  /\ pc' = IF o = "send" THEN "s_idle" ELSE "r_idle"
  /\ polls' = 0 /\ busyPolls' = 0 /\ trace' = <<>>
  /\ \E d0 \in IdleInputs(s, d, len, ty) : idleIn' = d0
  /\ busyIn' = 0
  /\ calls' = calls + 1
  /\ UNCHANGED <<hwRegs, busVars, script, lcdVars>>

I2C_mstr_send_internal(s, d, len, ty) == Enter("send", s, d, len, ty)
I2C_mstr_read_internal(s, len, ty) == Enter("read", s, <<>>, len, ty)

\* send1 made to open a transaction it does not close
I2C_mstr_send1_AsStart(s, b) == fn' = "send1" /\ I2C_mstr_send_internal(s, <<b>>, 1, I2C_START)

I2C_mstr_send1(s, b) == fn' = "send1" /\ I2C_mstr_send_internal(s, <<b>>, 1, I2C_NORMAL)
I2C_mstr_send(s, d, len) == fn' = "send" /\ I2C_mstr_send_internal(s, d, len, I2C_NORMAL)
I2C_mstr_send_start(s, d, len) == fn' = "send_start" /\ I2C_mstr_send_internal(s, d, len, I2C_START)
I2C_mstr_send_continue(s, d, len) == fn' = "send_continue" /\ I2C_mstr_send_internal(s, d, len, I2C_CONTINUE)
I2C_mstr_send_end(s, d, len) == fn' = "send_end" /\ I2C_mstr_send_internal(s, d, len, I2C_END)
I2C_mstr_read1(s) == fn' = "read1" /\ I2C_mstr_read_internal(s, 1, I2C_NORMAL)
I2C_mstr_read(s, len) == fn' = "read" /\ I2C_mstr_read_internal(s, len, I2C_NORMAL)
I2C_mstr_read_start(s, len) == fn' = "read_start" /\ I2C_mstr_read_internal(s, len, I2C_START)
I2C_mstr_read_continue(s, len) == fn' = "read_continue" /\ I2C_mstr_read_internal(s, len, I2C_CONTINUE)
I2C_mstr_read_end(s, len) == fn' = "read_end" /\ I2C_mstr_read_internal(s, len, I2C_END)

\* the policy each public function passes to the internal one
PolicyOf(f) ==
  CASE f \in {"send1", "send", "read1", "read"} -> I2C_NORMAL
    [] f \in {"send_start", "read_start"} -> I2C_START
    [] f \in {"send_continue", "read_continue"} -> I2C_CONTINUE
    [] f \in {"send_end", "read_end"} -> I2C_END

\* return from the running call
Return(v) == pc' = "done" /\ result' = v

\* ------------------------------------------------------------ send
\* a full test that takes the free-entry count for the fill count
FillFull_CountsUsed(cnt) == cnt = FIFO_DEPTH

\* I2C_fill_tx_fifo, one pass of its loop body: the full test, then the write
\* (a write to a full queue is lost)
FillFull(cnt) == cnt = 0

FillStatus(st, cnt) == IF FillFull(cnt) THEN 0 ELSE st
FillWrite(q, b) == IF Len(q) < FIFO_DEPTH THEN Append(q, b) ELSE q

\* the write put in an else branch of the full test
FillWrites_UnlessFull(st) == st # 0

\* MTXDATA = buffer[i] follows the full test unconditionally
FillWrites(st) == TRUE

\* a fill result nobody looks at
SendFillResult_Ignored(st, fs) == st

\* if (I2C_fill_tx_fifo(data, length) == 0) ret_status = I2C_FIFO_LOAD_ERROR
SendFillResult(st, fs) == IF fs = 0 THEN I2C_FIFO_LOAD_ERROR ELSE st

\* the idle wait left out
SendWaitsForIdle_Never(ty) == FALSE

\* if (i2c_type == I2C_NORMAL): only a new transaction waits for IDLE
SendWaitsForIdle(ty) == ty = I2C_NORMAL

\* timeout-- == 0: the test made before the decrement
SendIdleTimedOut_PostDecrement(t) == t = 0

\* if (--timeout == 0) of the idle wait
SendIdleTimedOut(t) == Dec32(t) = 0

\* a busy wait that never gives up
SendBusyTimedOut_Never(t) == FALSE

\* if (--timeout == 0) of the busy wait
SendBusyTimedOut(t) == Dec32(t) = 0

\* the burst set up whatever the fill reported
SendProceeds_Always(st) == TRUE

\* a send that refuses to start on a bus an open Start still holds
SendProceeds_OnFreeBusOnly(st) == st = I2C_SUCCESS /\ ~busOwned

\* if (ret_status == I2C_SUCCESS) before the address and control registers
SendProceeds(st) == st = I2C_SUCCESS

\* the Continue case copied from the Normal case
SendTransactionMode_ContinueStops(ty) ==
  IF ty = I2C_START THEN [start |-> TRUE, stop |-> FALSE] ELSE [start |-> TRUE, stop |-> TRUE]

\* the Start case copied from the Normal case
SendTransactionMode_StartStops(ty) ==
  IF ty = I2C_CONTINUE THEN [start |-> TRUE, stop |-> FALSE] ELSE [start |-> TRUE, stop |-> TRUE]

\* switch (i2c_type): the START / STOP bits of the burst
SendTransactionMode(ty) ==
  CASE ty = I2C_NORMAL -> [start |-> TRUE, stop |-> TRUE]
    [] ty = I2C_START -> [start |-> TRUE, stop |-> FALSE]
    [] ty = I2C_CONTINUE -> [start |-> TRUE, stop |-> FALSE]
    [] ty = I2C_END -> [start |-> TRUE, stop |-> TRUE]
    [] OTHER -> [start |-> TRUE, stop |-> TRUE]

\* the address put in the register without the shift
SendMsaValue_NoShift(s) == s + I2C_MSA_DIR_TRANSMIT

\* (slave << I2C_MSA_SADDR_OFS) | I2C_MSA_DIR_TRANSMIT
SendMsaValue(s) == (s * 2) + I2C_MSA_DIR_TRANSMIT

\* I2C_MCTR_ACK_DISABLE | mode | I2C_MCTR_BURSTRUN_ENABLE | MBLEN(length);
\* the length is a uint8_t and fits the MBLEN field
SendMctrValue(mode, len) ==
  [ack |-> FALSE, start |-> mode.start, stop |-> mode.stop, burstrun |-> TRUE,
   mblen |-> len]

\* the two flag tests in the other order
SendErrorStatus_NackFirst(st, al, er) ==
  IF st = I2C_SUCCESS
  THEN (IF er THEN I2C_ERR_NACK ELSE IF al THEN I2C_ERR_ARB_LOST ELSE st)
  ELSE st

\* arbitration lost is looked at first, then the error / no-ack flag
SendErrorStatus(st, al, er) ==
  IF st = I2C_SUCCESS
  THEN (IF al THEN I2C_ERR_ARB_LOST ELSE IF er THEN I2C_ERR_NACK ELSE st)
  ELSE st

\* a burst tried again when nobody acknowledged
SendAfterFlags_RetryOnNack(st) == IF st = I2C_ERR_NACK THEN "s_mctr" ELSE "s_ret"

\* after the flag tests the function falls through to its return
SendAfterFlags(st) == "s_ret"

\* while (IDLE cleared) { if (--timeout == 0) return I2C_ERR_TIMEOUT; usec_delay(10); }
SendIdleWait ==
  /\ pc = "s_idle"
  /\ IF SendWaitsForIdle(i2c_type)
     THEN /\ polls' = polls + 1
          /\ IF IdleCleared
             THEN /\ timeout' = Dec32(timeout)
                  /\ idleIn' = Tick(idleIn)
                  /\ IF SendIdleTimedOut(timeout)
                     THEN Return(I2C_ERR_TIMEOUT)
                     ELSE UNCHANGED <<pc, result>>
             ELSE /\ pc' = "s_flush"
                  /\ UNCHANGED <<timeout, idleIn, result>>
     ELSE /\ pc' = "s_flush"
          /\ UNCHANGED <<polls, timeout, idleIn, result>>
  /\ UNCHANGED <<fn, op, slave, data, length, i2c_type, ret_status, fill_status, i, idx,
                 buffer, hwRegs, busyIn, busVars, busyPolls, trace, callerVars>>

\* MFIFOCTL |= TXFLUSH
SendFlush ==
  /\ pc = "s_flush"
  /\ txflush' = TRUE
  /\ trace' = Append(trace, Ev("TXFLUSH", 1))
  /\ pc' = "s_flushwait"
  /\ UNCHANGED <<swVars, buffer, result, MSA, MCTR, rxflush, txfifo, rxfifo, arblst, err,
                 envVars, busVars, polls, busyPolls, callerVars>>

\* while (TXFIFOCNT != MAXIMUM);
SendFlushWait ==
  /\ pc = "s_flushwait"
  /\ TXFIFOCNT = FIFO_DEPTH
  /\ trace' = Append(trace, Ev("TXEMPTY", TXFIFOCNT))
  /\ pc' = "s_flushclr"
  /\ UNCHANGED <<swVars, buffer, result, hwRegs, envVars, busVars, polls, busyPolls, callerVars>>

\* MFIFOCTL &= ~TXFLUSH
SendFlushClear ==
  /\ pc = "s_flushclr"
  /\ txflush' = FALSE
  /\ trace' = Append(trace, Ev("TXFLUSH", 0))
  /\ pc' = "s_fill"
  /\ UNCHANGED <<swVars, buffer, result, MSA, MCTR, rxflush, txfifo, rxfifo, arblst, err,
                 envVars, busVars, polls, busyPolls, callerVars>>

\* I2C_fill_tx_fifo(data, length), one byte per step; its result decides ret_status
SendFill ==
  /\ pc = "s_fill"
  /\ IF i < length
     THEN /\ fill_status' = FillStatus(fill_status, TXFIFOCNT)
          /\ IF FillWrites(fill_status')
             THEN /\ txfifo' = FillWrite(txfifo, data[i + 1])
                  /\ trace' = Append(trace, Ev("MTXDATA", data[i + 1]))
             ELSE UNCHANGED <<txfifo, trace>>
          /\ i' = i + 1
          /\ UNCHANGED <<pc, ret_status>>
     ELSE /\ ret_status' = SendFillResult(ret_status, fill_status)
          /\ pc' = "s_msa"
          /\ UNCHANGED <<fill_status, txfifo, trace, i>>
  /\ UNCHANGED <<fn, op, slave, data, length, i2c_type, timeout, idx, buffer, result,
                 MSA, MCTR, txflush, rxflush, rxfifo, arblst, err,
                 envVars, busVars, polls, busyPolls, callerVars>>

\* if (ret_status == I2C_SUCCESS) MSA = ...; otherwise straight to the return
SendSetAddress ==
  /\ pc = "s_msa"
  /\ IF SendProceeds(ret_status)
     THEN /\ MSA' = SendMsaValue(slave)
          /\ trace' = Append(trace, Ev("MSA", SendMsaValue(slave)))
          /\ pc' = "s_mctr"
     ELSE /\ pc' = "s_ret"
          /\ UNCHANGED <<MSA, trace>>
  /\ UNCHANGED <<swVars, buffer, result, MCTR, txflush, rxflush, txfifo, rxfifo, arblst, err,
                 envVars, busVars, polls, busyPolls, callerVars>>

\* MCTR = ...: the burst is triggered; timeout = I2C_TIMEOUT_COUNT
SendStartBurst ==
  /\ pc = "s_mctr"
  /\ MCTR' = SendMctrValue(SendTransactionMode(i2c_type), length)
  /\ trace' = Append(trace, Ev("MCTR", length))
  /\ \E flags \in FlagInputs : \E busy \in BusyInputs(flags) :
       BurstRun(MSA, MCTR', flags, busy)
  /\ timeout' = I2C_TIMEOUT_COUNT
  /\ pc' = "s_busy"
  /\ UNCHANGED <<fn, op, slave, data, length, i2c_type, ret_status, fill_status, i, idx,
                 buffer, result, MSA, txflush, rxflush, idleIn, polls, busyPolls, callerVars>>

\* while (BUSY set) { if (--timeout == 0) return I2C_ERR_TIMEOUT; usec_delay(10); }
SendBusyWait ==
  /\ pc = "s_busy"
  /\ busyPolls' = busyPolls + 1
  /\ IF BusySet
     THEN /\ timeout' = Dec32(timeout)
          /\ busyIn' = Tick(busyIn)
          /\ IF SendBusyTimedOut(timeout)
             THEN Return(I2C_ERR_TIMEOUT)
             ELSE UNCHANGED <<pc, result>>
     ELSE /\ pc' = "s_flags"
          /\ UNCHANGED <<timeout, busyIn, result>>
  /\ UNCHANGED <<fn, op, slave, data, length, i2c_type, ret_status, fill_status, i, idx,
                 buffer, hwRegs, idleIn, busVars, polls, trace, callerVars>>

\* the error flags of MSR decide ret_status
SendCheckErrors ==
  /\ pc = "s_flags"
  /\ ret_status' = SendErrorStatus(ret_status, arblst, err)
  /\ trace' = Append(trace, Ev("MSR", 0))
  /\ pc' = SendAfterFlags(ret_status')
  /\ UNCHANGED <<fn, op, slave, data, length, i2c_type, timeout, fill_status, i, idx,
                 buffer, result, hwRegs, envVars, busVars, polls, busyPolls, callerVars>>

\* return (ret_status)
SendReturn ==
  /\ pc = "s_ret"
  /\ Return(ret_status)
  /\ UNCHANGED <<swVars, buffer, hwRegs, envVars, busVars, polls, busyPolls, trace, callerVars>>

SendSteps ==
  \/ SendIdleWait \/ SendFlush \/ SendFlushWait \/ SendFlushClear \/ SendFill
  \/ SendSetAddress \/ SendStartBurst \/ SendBusyWait \/ SendCheckErrors \/ SendReturn

\* ------------------------------------------------------------ receive
\* an End call made to wait for IDLE as well
ReadWaitsForIdle_AlsoEnd(ty) == ty \in {I2C_NORMAL, I2C_END}

\* the idle wait left out
ReadWaitsForIdle_Never(ty) == FALSE

\* if (i2c_type == I2C_NORMAL): only a new transaction waits for IDLE
ReadWaitsForIdle(ty) == ty = I2C_NORMAL

\* if (--timeout == 0) of the idle wait
ReadIdleTimedOut(t) == Dec32(t) = 0

\* the End case copied from the Start case
ReadTransactionMode_EndKeepsBus(ty) ==
  IF ty = I2C_NORMAL THEN [start |-> TRUE, stop |-> TRUE] ELSE [start |-> TRUE, stop |-> FALSE]

\* the Continue case copied from the End case
ReadTransactionMode_ContinueStops(ty) ==
  IF ty = I2C_START THEN [start |-> TRUE, stop |-> FALSE] ELSE [start |-> TRUE, stop |-> TRUE]

\* switch (i2c_type): the START / STOP bits of the burst
ReadTransactionMode(ty) ==
  CASE ty = I2C_NORMAL -> [start |-> TRUE, stop |-> TRUE]
    [] ty = I2C_START -> [start |-> TRUE, stop |-> FALSE]
    [] ty = I2C_CONTINUE -> [start |-> TRUE, stop |-> FALSE]
    [] ty = I2C_END -> [start |-> TRUE, stop |-> TRUE]
    [] OTHER -> [start |-> TRUE, stop |-> TRUE]

\* (slave << I2C_MSA_SADDR_OFS) | I2C_MSA_DIR_RECEIVE
ReadMsaValue(s) == (s * 2) + I2C_MSA_DIR_RECEIVE

\* the control word of the send path used for a receive
ReadMctrValue_AckDisabled(mode, len) ==
  [ack |-> FALSE, start |-> mode.start, stop |-> mode.stop, burstrun |-> TRUE,
   mblen |-> len]

\* I2C_MCTR_ACK_ENABLE | mode | I2C_MCTR_BURSTRUN_ENABLE | MBLEN(length)
ReadMctrValue(mode, len) ==
  [ack |-> TRUE, start |-> mode.start, stop |-> mode.stop, burstrun |-> TRUE,
   mblen |-> len]

\* arbitration lost is looked at first, then the error / no-ack flag
ReadErrorStatus(st, al, er) ==
  IF al THEN I2C_ERR_ARB_LOST ELSE IF er THEN I2C_ERR_NACK ELSE st

\* the send path's countdown copied into the receive path
ReadBusyTimedOut_Countdown(t) == busyPolls + 1 >= I2C_TIMEOUT_COUNT

\* the busy wait of the receive path has no countdown
ReadBusyTimedOut(t) == FALSE

\* the buffer filled from its end
DrainStore_Reversed(buf, k, b) == [buf EXCEPT ![Len(buf) - k] = b]

\* every byte stored in the first element
DrainStore_SameSlot(buf, k, b) == [buf EXCEPT ![1] = b]

\* the wait left as soon as the queue is full
ReadRxArrived_OrQueueFull(cnt, len) == ~(cnt < Min(len, FIFO_DEPTH))

\* the test of while (RXFIFOCNT < length); negated: the loop is left
ReadRxArrived(cnt, len) == ~(cnt < len)

\* the drain run whatever the flags said
ReadDrains_Always(st) == TRUE

\* if (ret_status == I2C_SUCCESS) around the drain loop
ReadDrains(st) == st = I2C_SUCCESS

\* buffer[idx] = MRXDATA
DrainStore(buf, k, b) == [buf EXCEPT ![k + 1] = b]

\* while (IDLE cleared) { if (--timeout == 0) return I2C_ERR_TIMEOUT; usec_delay(10); }
ReadIdleWait ==
  /\ pc = "r_idle"
  /\ IF ReadWaitsForIdle(i2c_type)
     THEN /\ polls' = polls + 1
          /\ IF IdleCleared
             THEN /\ timeout' = Dec32(timeout)
                  /\ idleIn' = Tick(idleIn)
                  /\ IF ReadIdleTimedOut(timeout)
                     THEN Return(I2C_ERR_TIMEOUT)
                     ELSE UNCHANGED <<pc, result>>
             ELSE /\ pc' = "r_flush"
                  /\ UNCHANGED <<timeout, idleIn, result>>
     ELSE /\ pc' = "r_flush"
          /\ UNCHANGED <<polls, timeout, idleIn, result>>
  /\ UNCHANGED <<fn, op, slave, data, length, i2c_type, ret_status, fill_status, i, idx,
                 buffer, hwRegs, busyIn, busVars, busyPolls, trace, callerVars>>

\* MFIFOCTL |= RXFLUSH
ReadFlush ==
  /\ pc = "r_flush"
  /\ rxflush' = TRUE
  /\ trace' = Append(trace, Ev("RXFLUSH", 1))
  /\ pc' = "r_flushwait"
  /\ UNCHANGED <<swVars, buffer, result, MSA, MCTR, txflush, txfifo, rxfifo, arblst, err,
                 envVars, busVars, polls, busyPolls, callerVars>>

\* while (RXFIFOCNT != MINIMUM);
ReadFlushWait ==
  /\ pc = "r_flushwait"
  /\ RXFIFOCNT = 0
  /\ trace' = Append(trace, Ev("RXEMPTY", RXFIFOCNT))
  /\ pc' = "r_flushclr"
  /\ UNCHANGED <<swVars, buffer, result, hwRegs, envVars, busVars, polls, busyPolls, callerVars>>

\* MFIFOCTL &= ~RXFLUSH
ReadFlushClear ==
  /\ pc = "r_flushclr"
  /\ rxflush' = FALSE
  /\ trace' = Append(trace, Ev("RXFLUSH", 0))
  /\ pc' = "r_msa"
  /\ UNCHANGED <<swVars, buffer, result, MSA, MCTR, txflush, txfifo, rxfifo, arblst, err,
                 envVars, busVars, polls, busyPolls, callerVars>>

\* if (ret_status == I2C_SUCCESS) MSA = ...
ReadSetAddress ==
  /\ pc = "r_msa"
  /\ IF ret_status = I2C_SUCCESS
     THEN /\ MSA' = ReadMsaValue(slave)
          /\ trace' = Append(trace, Ev("MSA", ReadMsaValue(slave)))
          /\ pc' = "r_mctr"
     ELSE /\ pc' = "r_ret"
          /\ UNCHANGED <<MSA, trace>>
  /\ UNCHANGED <<swVars, buffer, result, MCTR, txflush, rxflush, txfifo, rxfifo, arblst, err,
                 envVars, busVars, polls, busyPolls, callerVars>>

\* MCTR = ...: the burst is triggered
ReadStartBurst ==
  /\ pc = "r_mctr"
  /\ MCTR' = ReadMctrValue(ReadTransactionMode(i2c_type), length)
  /\ trace' = Append(trace, Ev("MCTR", length))
  /\ \E flags \in FlagInputs : \E busy \in BusyInputs(flags) :
       BurstRun(MSA, MCTR', flags, busy)
  /\ pc' = "r_busy"
  /\ UNCHANGED <<swVars, buffer, result, MSA, txflush, rxflush, idleIn, polls, busyPolls,
                 callerVars>>

\* while (BUSY set);  the polls are counted up to one past the send path's budget
ReadBusyWait ==
  /\ pc = "r_busy"
  /\ busyPolls' = IF busyPolls > I2C_TIMEOUT_COUNT THEN busyPolls ELSE busyPolls + 1
  /\ IF BusySet
     THEN /\ busyIn' = Tick(busyIn)
          /\ IF ReadBusyTimedOut(timeout)
             THEN Return(I2C_ERR_TIMEOUT)
             ELSE UNCHANGED <<pc, result>>
     ELSE /\ pc' = "r_flags"
          /\ UNCHANGED <<busyIn, result>>
  /\ UNCHANGED <<swVars, buffer, hwRegs, idleIn, busVars, polls, trace, callerVars>>

\* the error flags of MSR decide ret_status
ReadCheckErrors ==
  /\ pc = "r_flags"
  /\ ret_status' = ReadErrorStatus(ret_status, arblst, err)
  /\ trace' = Append(trace, Ev("MSR", 0))
  /\ pc' = "r_rxwait"
  /\ UNCHANGED <<fn, op, slave, data, length, i2c_type, timeout, fill_status, i, idx,
                 buffer, result, hwRegs, envVars, busVars, polls, busyPolls, callerVars>>

\* while (RXFIFOCNT < length);  the empty loop spins, changing nothing, for as
\* long as the queue holds fewer bytes; the step is taken when it is left
ReadRxWait ==
  /\ pc = "r_rxwait"
  /\ ReadRxArrived(RXFIFOCNT, length)
  /\ trace' = Append(trace, Ev("RXCNT", RXFIFOCNT))
  /\ pc' = "r_drain"
  /\ UNCHANGED <<swVars, buffer, result, hwRegs, envVars, busVars, polls, busyPolls, callerVars>>

\* if (ret_status == I2C_SUCCESS) for (idx = 0; idx < length; idx++) buffer[idx] = MRXDATA
ReadDrain ==
  /\ pc = "r_drain"
  /\ IF ReadDrains(ret_status) /\ idx < length
     THEN /\ buffer' = DrainStore(buffer, idx, Head(rxfifo))
          /\ rxfifo' = Tail(rxfifo)
          /\ trace' = Append(trace, Ev("MRXDATA", Head(rxfifo)))
          /\ idx' = idx + 1
          /\ UNCHANGED pc
     ELSE /\ pc' = "r_ret"
          /\ UNCHANGED <<buffer, rxfifo, trace, idx>>
  /\ UNCHANGED <<fn, op, slave, data, length, i2c_type, ret_status, timeout, fill_status, i,
                 result, MSA, MCTR, txflush, rxflush, txfifo, arblst, err,
                 envVars, busVars, polls, busyPolls, callerVars>>

\* return (ret_status)
ReadReturn ==
  /\ pc = "r_ret"
  /\ Return(ret_status)
  /\ UNCHANGED <<swVars, buffer, hwRegs, envVars, busVars, polls, busyPolls, trace, callerVars>>

ReadSteps ==
  \/ ReadIdleWait \/ ReadFlush \/ ReadFlushWait \/ ReadFlushClear \/ ReadSetAddress
  \/ ReadStartBurst \/ ReadBusyWait \/ ReadCheckErrors \/ ReadRxWait \/ ReadDrain
  \/ ReadReturn

HwSteps == HwTxFlush

\* ------------------------------------------------------------ the caller
\* lengths and buffers a caller passes
Lengths == 0..MaxLen
Buffers == {Buf(f, n) : f \in FirstBytes, n \in Lengths}

\* one call of one of the ten public functions
Call ==
  /\ pc = "ready" /\ script = <<>>
  /\ \/ \E s \in Addrs, b \in FirstBytes : I2C_mstr_send1(s, b)
     \/ \E s \in Addrs, d \in Buffers : I2C_mstr_send(s, d, Len(d))
     \/ \E s \in Addrs, d \in Buffers : I2C_mstr_send_start(s, d, Len(d))
     \/ \E s \in Addrs, d \in Buffers : I2C_mstr_send_continue(s, d, Len(d))
     \/ \E s \in Addrs, d \in Buffers : I2C_mstr_send_end(s, d, Len(d))
     \/ \E s \in Addrs : I2C_mstr_read1(s)
     \/ \E s \in Addrs, n \in Lengths : I2C_mstr_read(s, n)
     \/ \E s \in Addrs, n \in Lengths : I2C_mstr_read_start(s, n)
     \/ \E s \in Addrs, n \in Lengths : I2C_mstr_read_continue(s, n)
     \/ \E s \in Addrs, n \in Lengths : I2C_mstr_read_end(s, n)

\* the LCD driver before its first call
LcdPowerOn ==
  /\ g_lcd_backlight_mode = 0
  /\ lpc = "idle" /\ lfn = "none" /\ lcaller = "app"
  /\ init_status = 0 /\ index = 0
  /\ iic_addr = 0 /\ lcd_data = 0 /\ reg_select = 0
  /\ status = 0 /\ upper_nibble = 0 /\ lower_nibble = 0 /\ wstep = 0
  /\ lret = Unset /\ sends = <<>> /\ anyFailed = FALSE

\* the registers after I2C_mstr_init, nothing called yet
PowerOn ==
  /\ LcdPowerOn
  /\ pc = "ready" /\ fn = "none" /\ op = "none"
  /\ slave = 0 /\ data = <<>> /\ length = 0 /\ i2c_type = I2C_NORMAL
  /\ ret_status = I2C_SUCCESS /\ timeout = 0 /\ fill_status = 1 /\ i = 0 /\ idx = 0
  /\ buffer = <<>> /\ result = Unset
  /\ MSA = 0
  /\ MCTR = [ack |-> FALSE, start |-> FALSE, stop |-> FALSE, burstrun |-> FALSE, mblen |-> 0]
  /\ txflush = FALSE /\ rxflush = FALSE
  /\ idleIn = 0 /\ busyIn = 0
  /\ wire = <<>> /\ faulty = FALSE
  /\ calls = 0
  /\ polls = 0 /\ busyPolls = 0 /\ trace = <<>>

\* One call, made with the bus and the queues as earlier calls can have left
\* them: the bus free or held by an open Start, the transmit queue empty or
\* still full from a send that overflowed it, the slave's store empty or
\* written by an earlier send, the error flags of MSR as the last burst left
\* them.
Init ==
  /\ PowerOn
  /\ arblst \in BOOLEAN /\ err \in BOOLEAN
  /\ script = <<>>
  /\ busOwned \in BOOLEAN
  /\ txfifo \in {<<>>, Buf(224, FIFO_DEPTH)}
  /\ rxfifo = <<>>
  /\ slaveMem \in {<<>>, Buf(170, 3)}

Next == Call \/ SendSteps \/ ReadSteps \/ HwSteps

Spec == Init /\ [][Next]_vars

\* ------------------------------------------------------------ scripted caller
CallOf(f, s, d) == [fn |-> f, s |-> s, d |-> d]

\* send_start(a, [b1, b2]); send_continue(a, [b3, b4]); send_end(a, [b5])
SendChain(s, f) ==
  <<CallOf("send_start", s, Buf(f, 2)), CallOf("send_continue", s, Buf(f + 2, 2)),
    CallOf("send_end", s, Buf(f + 4, 1))>>
\* read_start(a, 2); read_continue(a, 2); read_end(a, 1)
ReadChain(s) ==
  <<CallOf("read_start", s, Buf(0, 2)), CallOf("read_continue", s, Buf(0, 2)),
    CallOf("read_end", s, Buf(0, 1))>>
\* send(a, d); read(a, len(d))
RoundTrip(s, d) == <<CallOf("send", s, d), CallOf("read", s, d)>>
\* send1(a, b); read1(a)
RoundTrip1(s, b) == <<CallOf("send1", s, <<b>>), CallOf("read1", s, <<b>>)>>

\* Normal, Start, Continue, Continue, End, Normal with sends and reads mixed
MixedChain(s) ==
  <<CallOf("send1", s, Buf(12, 1)), CallOf("send_start", s, Buf(1, 2)),
    CallOf("read_continue", s, Buf(0, 2)), CallOf("send_continue", s, Buf(3, 1)),
    CallOf("read_end", s, Buf(0, 1)), CallOf("read", s, Buf(0, 2))>>
\* Start, End, Normal, Start, End
ShortChains(s) ==
  <<CallOf("read_start", s, Buf(0, 1)), CallOf("send_end", s, Buf(5, 2)),
    CallOf("send", s, Buf(7, 3)), CallOf("read_start", s, Buf(0, 2)),
    CallOf("read_end", s, Buf(0, 2))>>

Scripts ==
  {SendChain(s, f) : s \in Addrs, f \in FirstBytes \cup {1}}
  \cup {MixedChain(s) : s \in Addrs} \cup {ShortChains(s) : s \in Addrs}
  \cup {ReadChain(s) : s \in Addrs}
  \cup {RoundTrip(s, d) : s \in Addrs, d \in Buffers}
  \cup {RoundTrip1(s, b) : s \in Addrs, b \in FirstBytes}

\* the public function a script entry names (a read entry's d gives the length)
Invoke(c) ==
  CASE c.fn = "send1" -> I2C_mstr_send1(c.s, c.d[1])
    [] c.fn = "send" -> I2C_mstr_send(c.s, c.d, Len(c.d))
    [] c.fn = "send_start" -> I2C_mstr_send_start(c.s, c.d, Len(c.d))
    [] c.fn = "send_continue" -> I2C_mstr_send_continue(c.s, c.d, Len(c.d))
    [] c.fn = "send_end" -> I2C_mstr_send_end(c.s, c.d, Len(c.d))
    [] c.fn = "read1" -> I2C_mstr_read1(c.s)
    [] c.fn = "read" -> I2C_mstr_read(c.s, Len(c.d))
    [] c.fn = "read_start" -> I2C_mstr_read_start(c.s, Len(c.d))
    [] c.fn = "read_continue" -> I2C_mstr_read_continue(c.s, Len(c.d))
    [] c.fn = "read_end" -> I2C_mstr_read_end(c.s, Len(c.d))

\* the caller makes the next call of its script once the last one returned
ScriptCall ==
  /\ pc \in {"ready", "done"}
  /\ calls < Len(script)
  /\ Invoke(script[calls + 1])

InitSeq ==
  /\ PowerOn
  /\ script \in Scripts
  /\ busOwned = FALSE /\ txfifo = <<>> /\ rxfifo = <<>> /\ slaveMem = <<>>
  /\ arblst = FALSE /\ err = FALSE

NextSeq == ScriptCall \/ SendSteps \/ ReadSteps \/ HwSteps

SpecSeq == InitSeq /\ [][NextSeq]_vars

\* The processor keeps executing the call it is in, the controller completes
\* a flush it was asked for, and the caller goes on with its script.
SpecSeqFair ==
  /\ SpecSeq
  /\ WF_vars(SendSteps) /\ WF_vars(ReadSteps) /\ WF_vars(HwSteps) /\ WF_vars(ScriptCall)

\* ------------------------------------------------------------ LCD driver
\* lcd1602.c, stepped from one I2C_mstr_send1 call to the next. The driver
\* sees of a send1 call the byte it passed and the code that came back: one
\* of the codes a one-byte Normal send returns (the overflow code needs more
\* than 8 bytes).
engineVars == <<pc, swVars, buffer, result, hwRegs, envVars, busVars, polls, busyPolls, trace,
                script, calls>>
initVars == <<init_status, index>>
writeVars == <<iic_addr, lcd_data, reg_select, status, upper_nibble, lower_nibble, wstep>>
logVars == <<sends, anyFailed>>

Send1Results == {I2C_SUCCESS, I2C_ERR_ARB_LOST, I2C_ERR_NACK, I2C_ERR_TIMEOUT}
\* I2C_mstr_send1(addr, byte) returned r
Send1(addr, byte, r) ==
  /\ sends' = Append(sends, <<addr, byte>>)
  /\ anyFailed' = (anyFailed \/ r # I2C_SUCCESS)

\* arguments the application passes to lcd1602_write
LcdAddrs == {LCD_IIC_ADDRESS, 63}
LcdBytes == {0, 72, 165, 255}
RegSelects == {LCD_INSTR_REG, LCD_DATA_REG}

\* lcd_init_code[]: 0x30, 0x30, 0x30, 0x20, 0x28, 0x0C, 0x06, 0x01
lcd_init_code == <<48, 48, 48, 32, 40, 12, 6, 1>>

\* (data & UPPER_NIBBLE_MASK) | g_lcd_backlight_mode | WRITE_ENABLE | reg_select
UpperNibble(d, g, rs) == Or8(And8(d, UPPER_NIBBLE_MASK), Or8(g, Or8(WRITE_ENABLE, rs)))
\* ((data & LOWER_NIBBLE_MASK) << NIBBLE_SHIFT) | g_lcd_backlight_mode | WRITE_ENABLE | reg_select
LowerNibble(d, g, rs) ==
  Or8(Shl8(And8(d, LOWER_NIBBLE_MASK), NIBBLE_SHIFT), Or8(g, Or8(WRITE_ENABLE, rs)))

\* the lower nibble latched before the upper one
WriteSequence_LowerFirst(up, lo, g) ==
  <<lo, Or8(lo, LATCH_ENABLE), lo, up, Or8(up, LATCH_ENABLE), up, Or8(g, READ_ENABLE)>>

\* the bytes lcd1602_write passes to its send1 calls, in the order of the calls
WriteSequence(up, lo, g) ==
  <<up, Or8(up, LATCH_ENABLE), up, lo, Or8(lo, LATCH_ENABLE), lo, Or8(g, READ_ENABLE)>>

\* g_lcd_backlight_mode + LCD_BACKLIGHT_BIT_MASK
BacklightOnValue_Added(g) == (g + LCD_BACKLIGHT_BIT_MASK) % 256

\* g_lcd_backlight_mode |= LCD_BACKLIGHT_BIT_MASK
BacklightOnValue(g) == Or8(g, LCD_BACKLIGHT_BIT_MASK)
\* g_lcd_backlight_mode &= ~LCD_BACKLIGHT_BIT_MASK
BacklightOffValue(g) == And8(g, 255 - LCD_BACKLIGHT_BIT_MASK)

\* the application calls a function of the driver
LcdEnter(f) ==
  /\ lpc \in {"idle", "returned"}
  /\ lfn' = f
  /\ sends' = <<>> /\ anyFailed' = FALSE /\ lret' = Unset

\* entry of lcd1602_write: arguments, status = 0 and the two nibbles
lcd1602_write(a, d, rs, from) ==
  /\ iic_addr' = a /\ lcd_data' = d /\ reg_select' = rs
  /\ status' = 0
  /\ upper_nibble' = UpperNibble(d, g_lcd_backlight_mode, rs)
  /\ lower_nibble' = LowerNibble(d, g_lcd_backlight_mode, rs)
  /\ wstep' = 1
  /\ lcaller' = from
  /\ lpc' = "w_send"

AppWrite ==
  /\ LcdEnter("lcd1602_write")
  /\ \E a \in LcdAddrs, d \in LcdBytes, rs \in RegSelects : lcd1602_write(a, d, rs, "app")
  /\ UNCHANGED <<g_lcd_backlight_mode, initVars, engineVars>>

\* entry of lcd1602_init: status = 0, first loop at index 0
AppInit ==
  /\ LcdEnter("lcd1602_init")
  /\ init_status' = 0 /\ index' = 0
  /\ lpc' = "i_latched"
  /\ UNCHANGED <<g_lcd_backlight_mode, lcaller, writeVars, engineVars>>

AppBacklightOn ==
  /\ LcdEnter("lcd_set_backlight_on")
  /\ lpc' = "b_on" /\ lcaller' = "app"
  /\ UNCHANGED <<g_lcd_backlight_mode, initVars, writeVars, engineVars>>

AppBacklightOff ==
  /\ LcdEnter("lcd_set_backlight_off")
  /\ lpc' = "b_off" /\ lcaller' = "app"
  /\ UNCHANGED <<g_lcd_backlight_mode, initVars, writeVars, engineVars>>

\* status |= I2C_mstr_send1(iic_addr, ...): the seven sends of lcd1602_write
WriteSend ==
  /\ lpc = "w_send"
  /\ LET bytes == WriteSequence(upper_nibble, lower_nibble, g_lcd_backlight_mode)
     IN /\ \E r \in Send1Results :
             /\ Send1(iic_addr, bytes[wstep], r)
             /\ status' = Or8(status, r)
        /\ IF wstep < Len(bytes)
           THEN wstep' = wstep + 1 /\ UNCHANGED lpc
           ELSE lpc' = "w_ret" /\ UNCHANGED wstep
  /\ UNCHANGED <<g_lcd_backlight_mode, lfn, lcaller, initVars, iic_addr, lcd_data, reg_select,
                 upper_nibble, lower_nibble, lret, engineVars>>

\* return (status), to the application or into status |= ... of lcd1602_init's second loop
WriteReturn ==
  /\ lpc = "w_ret"
  /\ IF lcaller = "app"
     THEN /\ lret' = status
          /\ lpc' = "returned"
          /\ UNCHANGED initVars
     ELSE /\ init_status' = Or8(init_status, status)
          /\ index' = index + 1
          /\ lpc' = "i_write"
          /\ UNCHANGED lret
  /\ UNCHANGED <<g_lcd_backlight_mode, lfn, lcaller, writeVars, logVars, engineVars>>

\* first loop: status |= send1(LCD_IIC_ADDRESS, code | LATCH_ENABLE | WRITE_ENABLE | LCD_INSTR_REG)
InitSendLatched ==
  /\ lpc = "i_latched"
  /\ \E r \in Send1Results :
       /\ Send1(LCD_IIC_ADDRESS,
                Or8(lcd_init_code[index + 1], Or8(LATCH_ENABLE, Or8(WRITE_ENABLE, LCD_INSTR_REG))), r)
       /\ init_status' = Or8(init_status, r)
  /\ lpc' = "i_plain"
  /\ UNCHANGED <<g_lcd_backlight_mode, lfn, lcaller, index, writeVars, lret, engineVars>>

\* first loop: status |= send1(LCD_IIC_ADDRESS, code | WRITE_ENABLE | LCD_INSTR_REG); index++
InitSendPlain ==
  /\ lpc = "i_plain"
  /\ \E r \in Send1Results :
       /\ Send1(LCD_IIC_ADDRESS,
                Or8(lcd_init_code[index + 1], Or8(WRITE_ENABLE, LCD_INSTR_REG)), r)
       /\ init_status' = Or8(init_status, r)
  /\ index' = index + 1
  /\ lpc' = IF index + 1 < 4 THEN "i_latched" ELSE "i_write"
  /\ UNCHANGED <<g_lcd_backlight_mode, lfn, lcaller, writeVars, lret, engineVars>>

\* second loop: lcd1602_write(LCD_IIC_ADDRESS, code, LCD_INSTR_REG) while
\* index < MAX_NUM_CMDS, then lcd_set_backlight_on()
InitWrite ==
  /\ lpc = "i_write"
  /\ IF index < MAX_NUM_CMDS
     THEN lcd1602_write(LCD_IIC_ADDRESS, lcd_init_code[index + 1], LCD_INSTR_REG, "init")
     ELSE /\ lpc' = "b_on" /\ lcaller' = "init"
          /\ UNCHANGED writeVars
  /\ UNCHANGED <<g_lcd_backlight_mode, lfn, initVars, lret, logVars, engineVars>>

\* lcd_set_backlight_on: the bit set, the mode sent, the result dropped
BacklightOn ==
  /\ lpc = "b_on"
  /\ g_lcd_backlight_mode' = BacklightOnValue(g_lcd_backlight_mode)
  /\ \E r \in Send1Results : Send1(LCD_IIC_ADDRESS, g_lcd_backlight_mode', r)
  /\ lpc' = IF lcaller = "init" THEN "i_ret" ELSE "returned"
  /\ UNCHANGED <<lfn, lcaller, initVars, writeVars, lret, engineVars>>

\* lcd_set_backlight_off: the bit cleared, the mode sent, the result dropped
BacklightOff ==
  /\ lpc = "b_off"
  /\ g_lcd_backlight_mode' = BacklightOffValue(g_lcd_backlight_mode)
  /\ \E r \in Send1Results : Send1(LCD_IIC_ADDRESS, g_lcd_backlight_mode', r)
  /\ lpc' = "returned"
  /\ UNCHANGED <<lfn, lcaller, initVars, writeVars, lret, engineVars>>

\* return (status) of lcd1602_init
InitReturn ==
  /\ lpc = "i_ret"
  /\ lret' = init_status
  /\ lpc' = "returned"
  /\ UNCHANGED <<g_lcd_backlight_mode, lfn, lcaller, initVars, writeVars, logVars, engineVars>>

InitLcd ==
  /\ PowerOn
  /\ script = <<>>
  /\ busOwned = FALSE /\ txfifo = <<>> /\ rxfifo = <<>> /\ slaveMem = <<>>
  /\ arblst = FALSE /\ err = FALSE

NextLcd ==
  \/ AppWrite \/ AppInit \/ AppBacklightOn \/ AppBacklightOff
  \/ WriteSend \/ WriteReturn
  \/ InitSendLatched \/ InitSendPlain \/ InitWrite \/ InitReturn
  \/ BacklightOn \/ BacklightOff

SpecLcd == InitLcd /\ [][NextLcd]_vars

\* ------------------------------------------------------------ properties
\* the running call wrote the named register / made the named observation
Did(name) == \E k \in 1..Len(trace) : trace[k][1] = name
\* the running call has written MCTR: its burst is triggered
Triggered == Did("MCTR")
\* conditions of one kind the bus monitor saw
Count(kind) == Cardinality({k \in 1..Len(wire) : wire[k][1] = kind})
IsTx(e) == e[1] = "TX"
\* the bytes the slave was sent, in bus order
TxBytes == LET sel == SelectSeq(wire, IsTx) IN [k \in 1..Len(sel) |-> sel[k][2]]
StopPolicies == {I2C_NORMAL, I2C_END}
IsTxWrite(e) == e[1] = "MTXDATA"
\* the bytes the running call wrote to the transmit data register, in order
TxWrites == LET sel == SelectSeq(trace, IsTxWrite) IN [k \in 1..Len(sel) |-> sel[k][2]]

\* C1: once a call has programmed MCTR for its burst (send or receive, any
\* policy), BURSTRUN and START are set, and STOP is set exactly for the
\* policies Normal and End.
C1_StartAlwaysStopIffNormalOrEnd ==
  Triggered =>
    /\ MCTR.burstrun /\ MCTR.start
    /\ (MCTR.stop <=> i2c_type \in StopPolicies)

C1_Witness ==
  Triggered /\ op = "read" /\ i2c_type = I2C_CONTINUE /\ MCTR.start /\ ~MCTR.stop

\* C2: once the error flags have been read after the burst, arbitration lost
\* set (also together with the error flag) gives I2C_ERR_ARB_LOST, and
\* I2C_ERR_NACK stands only for error set with arbitration lost clear; the
\* call returns that status.
C2_ArbitrationBeforeNack ==
  Did("MSR") =>
    /\ (arblst => ret_status = I2C_ERR_ARB_LOST)
    /\ (ret_status = I2C_ERR_NACK => err /\ ~arblst)
    /\ (err /\ ~arblst => ret_status = I2C_ERR_NACK)
    /\ (pc = "done" => result = ret_status)

C2_Witness ==
  pc = "done" /\ op = "send" /\ i2c_type = I2C_START /\ arblst /\ err
  /\ result = I2C_ERR_ARB_LOST

\* C3: a Normal call on a bus whose idle flag never reads set returns
\* I2C_ERR_TIMEOUT on the 200,000th poll of the flag, not before and not
\* after; a call that saw the flag set on any poll up to the 200,000th does
\* not time out in the idle wait.
C3_IdleTimeoutExact ==
  /\ (pc \in {"s_idle", "r_idle"} => polls < I2C_TIMEOUT_COUNT)
  /\ (i2c_type = I2C_NORMAL /\ idleIn = Never /\ pc # "ready" =>
        \/ pc \in {"s_idle", "r_idle"}
        \/ pc = "done" /\ result = I2C_ERR_TIMEOUT /\ polls = I2C_TIMEOUT_COUNT)
  /\ (pc = "done" /\ result = I2C_ERR_TIMEOUT /\ ~Triggered =>
        i2c_type = I2C_NORMAL /\ idleIn = Never /\ polls = I2C_TIMEOUT_COUNT)
  /\ (i2c_type = I2C_NORMAL /\ idleIn = 0 /\ pc \notin {"ready", "s_idle", "r_idle"} =>
        polls <= I2C_TIMEOUT_COUNT /\ (result = I2C_ERR_TIMEOUT => Triggered))

C3_Witness ==
  pc = "done" /\ fn = "read" /\ result = I2C_ERR_TIMEOUT /\ polls = I2C_TIMEOUT_COUNT
  /\ trace = <<>>

\* C4: a send of any policy that got past the idle check and loaded the
\* flushed queue returns I2C_FIFO_LOAD_ERROR when length is 9 or more and
\* never when length is 8 or less.
C4_FifoLoadIffOverNine ==
  op = "send" /\ pc = "done" /\ Did("TXFLUSH") =>
    (result = I2C_FIFO_LOAD_ERROR <=> length >= 9)

C4_Witness ==
  pc = "done" /\ fn = "send_continue" /\ length = 9 /\ result = I2C_FIFO_LOAD_ERROR

\* C5: send_start(a, [b1, b2]); send_continue(a, [b3, b4]); send_end(a, [b5])
\* on an acknowledging bus: one START (each later burst opens with a
\* repeated START), one STOP, which comes with the last burst and ends the
\* sequence, and b1..b5 reach the slave in that order.
IsSendChain == Len(script) = 3 /\ script[1].fn = "send_start"
C5_ChainOneStartOneStop ==
  IsSendChain /\ ~faulty =>
    /\ Count("START") <= 1
    /\ Count("STOP") = (IF calls = 3 /\ Triggered THEN 1 ELSE 0)
    /\ (calls = 3 /\ pc = "done" =>
          /\ result = I2C_SUCCESS
          /\ Count("START") = 1 /\ Count("RSTART") = 2 /\ Count("STOP") = 1
          /\ wire[Len(wire)][1] = "STOP"
          /\ TxBytes = script[1].d \o script[2].d \o script[3].d)

C5_Witness ==
  IsSendChain /\ ~faulty /\ calls = 3 /\ pc = "done" /\ TxBytes = <<1, 2, 3, 4, 5>>

\* C6: send(a, d) then read(a, len(d)) with d of 1..8 bytes, the slave
\* storing what it receives and acknowledging: both calls return
\* I2C_SUCCESS and the read buffer holds d in order (send1 / read1 alike).
IsRoundTrip == Len(script) = 2 /\ script[1].fn \in {"send", "send1"}
C6_RoundTrip ==
  IsRoundTrip /\ ~faulty /\ Len(script[1].d) \in 1..8 /\ pc = "done" =>
    /\ result = I2C_SUCCESS
    /\ (calls = 2 => buffer = script[1].d)

C6_Witness ==
  IsRoundTrip /\ ~faulty /\ pc = "done" /\ calls = 2 /\ fn = "read"
  /\ Len(buffer) = 8 /\ buffer = script[1].d

\* C7: send1(a, b) on a bus that goes idle, to a slave that acknowledges:
\* returns I2C_SUCCESS, MSA holds a in bits 7..1 with the transmit direction
\* bit, the burst length is 1, START and STOP are both set.
C7_Send1Scenario ==
  fn = "send1" /\ pc = "done" /\ idleIn = 0 /\ busyIn = 0 /\ ~arblst /\ ~err =>
    /\ result = I2C_SUCCESS
    /\ MSA \div 2 = slave /\ MSA % 2 = I2C_MSA_DIR_TRANSMIT
    /\ MCTR.mblen = 1 /\ MCTR.start /\ MCTR.stop /\ MCTR.burstrun

C7_Witness ==
  fn = "send1" /\ pc = "done" /\ result = I2C_SUCCESS /\ slave = 39 /\ data = <<12>>
  /\ MSA = 78

\* C8 as stated: once the burst is triggered and the busy flag never clears,
\* the call (send or receive) never returns.
C8_Original_NoBusyBound ==
  Triggered /\ busyIn = Never => pc # "done"

\* C8 amended: only the receive path waits without a bound (it stays in the
\* busy wait however often it polled); the send path counts the same
\* 200,000-poll budget down and returns I2C_ERR_TIMEOUT on the 200,000th
\* poll of the busy flag.
C8_BusyBoundOnlyOnSend ==
  /\ (op = "read" /\ Triggered /\ busyIn = Never => pc = "r_busy")
  /\ (pc = "s_busy" => busyPolls < I2C_TIMEOUT_COUNT)
  /\ (op = "send" /\ Triggered /\ busyIn = Never /\ pc # "s_busy" =>
        pc = "done" /\ result = I2C_ERR_TIMEOUT /\ busyPolls = I2C_TIMEOUT_COUNT)

C8_Witness ==
  pc = "r_busy" /\ busyIn = Never /\ busyPolls > I2C_TIMEOUT_COUNT

\* C9 as stated: I2C_ERR_TIMEOUT comes only from the idle wait of a Normal
\* call, never from a Start / Continue / End call and never after the burst
\* was triggered.
C9_Original_TimeoutOnlyFromIdleWait ==
  pc = "done" /\ result = I2C_ERR_TIMEOUT => i2c_type = I2C_NORMAL /\ ~Triggered

\* C9 amended: I2C_ERR_TIMEOUT comes from the idle wait of a Normal call
\* (send or receive, nothing triggered yet) or from the busy wait of a send
\* call of any policy, after its burst was triggered; a receive call never
\* returns it once its burst is triggered, nor under Start / Continue / End.
C9_TimeoutSources ==
  pc = "done" /\ result = I2C_ERR_TIMEOUT =>
    \/ i2c_type = I2C_NORMAL /\ ~Triggered /\ ~Did("TXFLUSH") /\ ~Did("RXFLUSH")
    \/ op = "send" /\ Triggered /\ ~Did("MSR")

C9_Witness ==
  pc = "done" /\ fn = "send_end" /\ result = I2C_ERR_TIMEOUT /\ Triggered

\* C10 as stated: on a transmit-queue overflow the send engine still programs
\* MSA and MCTR and triggers the burst before it reports I2C_FIFO_LOAD_ERROR.
C10_Original_OverflowStillTriggers ==
  pc = "done" /\ result = I2C_FIFO_LOAD_ERROR => Did("MSA") /\ Triggered

\* C10 amended: on a transmit-queue overflow the send engine writes every
\* byte to the data register, then skips the address and control registers:
\* no burst is triggered, nothing reaches the bus, and the call returns
\* I2C_FIFO_LOAD_ERROR.
C10_OverflowSkipsBurst ==
  /\ (op = "send" /\ fill_status = 0 /\ pc \notin {"s_fill", "s_msa"} =>
        pc \in {"s_ret", "done"} /\ ret_status = I2C_FIFO_LOAD_ERROR)
  /\ (ret_status = I2C_FIFO_LOAD_ERROR \/ result = I2C_FIFO_LOAD_ERROR =>
        /\ ~Did("MSA") /\ ~Triggered
        /\ ~MCTR.burstrun /\ wire = <<>>
        /\ i = length)

C10_Witness ==
  pc = "done" /\ result = I2C_FIFO_LOAD_ERROR /\ i = 9 /\ Len(txfifo) = FIFO_DEPTH
  /\ ~Triggered

C12_FillWritesEveryByte ==
  op = "send" =>
    /\ TxWrites = SubSeq(data, 1, i)
    /\ (pc \in {"s_msa", "s_mctr", "s_busy", "s_flags", "s_ret"} => i = length)
    /\ (pc = "done" /\ Did("TXFLUSH") => i = length)
    /\ (fill_status = 0 => ret_status \in {I2C_SUCCESS, I2C_FIFO_LOAD_ERROR})

C12_Witness ==
  op = "send" /\ pc = "done" /\ fill_status = 0 /\ length = 9
  /\ TxWrites = data /\ Len(txfifo) = FIFO_DEPTH

\* C13 as stated: whenever a Normal or End call has returned, with whatever
\* result, it has triggered a burst with the STOP bit set.
C13_Original_StopOnEveryReturn ==
  pc = "done" /\ i2c_type \in StopPolicies => Triggered /\ MCTR.start /\ MCTR.stop

\* C13 amended: a Normal or End call that has returned triggered a burst,
\* with START and STOP both set, unless it returned I2C_ERR_TIMEOUT from the
\* idle wait (Normal only) or I2C_FIFO_LOAD_ERROR (send only); in these two
\* cases it triggered nothing and put nothing on the bus, no STOP either.
C13_StopUnlessNothingTriggered ==
  pc = "done" /\ i2c_type \in StopPolicies =>
    /\ (Triggered => MCTR.burstrun /\ MCTR.start /\ MCTR.stop)
    /\ (~Triggered <=>
          \/ result = I2C_FIFO_LOAD_ERROR /\ op = "send"
          \/ result = I2C_ERR_TIMEOUT /\ i2c_type = I2C_NORMAL /\ trace = <<>>)
    /\ (~Triggered => wire = <<>>)

C13_Witness ==
  pc = "done" /\ fn = "send_end" /\ result = I2C_FIFO_LOAD_ERROR /\ ~Triggered
  /\ busOwned /\ Count("STOP") = 0

\* positions of the bus monitor's record where a START or repeated START / a STOP was seen
StartsSeen == {k \in 1..Len(wire) : wire[k][1] \in {"START", "RSTART"}}
StopsSeen == {k \in 1..Len(wire) : wire[k][1] = "STOP"}
\* a START has been issued with no STOP after it
StartOpen == \E k \in StartsSeen : \A j \in StopsSeen : j < k
\* scripts of the form (Normal | Start Continue* End)* with buffers the queue holds
IsProtocolScript ==
  /\ Len(script) > 0
  /\ \A k \in 1..Len(script) :
       /\ Len(script[k].d) <= FIFO_DEPTH
       /\ (PolicyOf(script[k].fn) \in {I2C_CONTINUE, I2C_END} <=>
            k > 1 /\ PolicyOf(script[k - 1].fn) \in {I2C_START, I2C_CONTINUE})
\* C14: in a call sequence of the form (Normal | Start Continue* End)* whose
\* calls all return I2C_SUCCESS, after each return the bus is held (a START
\* with no STOP after it) exactly when the call just made was a Start or a
\* Continue, and free after every Normal and every End.
C14_BusOwnedIffStartOrContinue ==
  IsProtocolScript /\ ~faulty /\ pc = "done" =>
    /\ result = I2C_SUCCESS
    /\ (StartOpen <=> i2c_type \in {I2C_START, I2C_CONTINUE})
    /\ (busOwned <=> StartOpen)

C14_Witness ==
  /\ Len(script) = 6 /\ ~faulty /\ pc = "done" /\ result = I2C_SUCCESS
  /\ calls = 4 /\ fn = "send_continue" /\ StartOpen /\ Count("STOP") = 1

\* the bus was held by an open Start when the running call was made
EntryOwned == IF wire = <<>> THEN busOwned ELSE wire[1][1] = "RSTART"
\* the running call breaks the caller's protocol: Continue or End on a free
\* bus, Normal or Start on a held one
ProtocolViolation ==
  /\ pc # "ready"
  /\ \/ i2c_type \in {I2C_CONTINUE, I2C_END} /\ ~EntryOwned
     \/ i2c_type \in {I2C_NORMAL, I2C_START} /\ EntryOwned
\* what a call returns, from its arguments and the flags it read alone
OutcomeOfInputs ==
  IF i2c_type = I2C_NORMAL /\ idleIn = Never THEN I2C_ERR_TIMEOUT
  ELSE IF op = "send" /\ length > FIFO_DEPTH THEN I2C_FIFO_LOAD_ERROR
  ELSE IF op = "send" /\ busyIn = Never THEN I2C_ERR_TIMEOUT
  ELSE IF arblst THEN I2C_ERR_ARB_LOST
  ELSE IF err THEN I2C_ERR_NACK
  ELSE I2C_SUCCESS
\* C15: a call that breaks the caller's protocol is not rejected: it
\* programs MSA and MCTR with the bits of the policy it was given, the
\* burst runs (START or repeated START and the address appear on the bus),
\* and it returns what its arguments and the flags alone decide.
C15_ViolationsNotDetected ==
  ProtocolViolation =>
    /\ (Triggered =>
          /\ MSA \div 2 = slave
          /\ MCTR.burstrun /\ MCTR.start /\ MCTR.mblen = length
          /\ (MCTR.stop <=> i2c_type \in StopPolicies)
          /\ Len(wire) >= 2 /\ wire[2] = Ev("ADDR", MSA))
    /\ (pc = "done" =>
          /\ result = OutcomeOfInputs
          /\ (Triggered <=>
                ~(i2c_type = I2C_NORMAL /\ idleIn = Never)
                /\ ~(op = "send" /\ length > FIFO_DEPTH)))

C15_Witness ==
  /\ ProtocolViolation /\ pc = "done" /\ fn = "send" /\ EntryOwned
  /\ result = I2C_SUCCESS /\ wire[1][1] = "RSTART" /\ ~busOwned

\* a receive burst ended with arbitration lost or no acknowledge and left
\* fewer bytes in the receive queue than the call asked for
ReceiveBurstFailed ==
  /\ op = "read" /\ pc = "r_rxwait"
  /\ ret_status \in {I2C_ERR_ARB_LOST, I2C_ERR_NACK}
  /\ RXFIFOCNT < length
\* C16: a receive call whose burst ended with arbitration lost or no
\* acknowledge, with fewer than `length` bytes in the receive queue,
\* eventually returns that error to its caller.
C16_ReceiveErrorReturned ==
  ReceiveBurstFailed ~> (pc = "done" /\ result \in {I2C_ERR_ARB_LOST, I2C_ERR_NACK})

\* the call sits in while (RXFIFOCNT < length) with the error in ret_status
C16_Witness ==
  ReceiveBurstFailed /\ fn = "read" /\ length = 3 /\ ret_status = I2C_ERR_NACK
  /\ rxfifo = <<>> /\ Did("MSR")

\* C17: a Start, Continue or End call (send or receive) never reads the idle
\* flag, and goes on to its burst also when the flag is clear and stays
\* clear; a Normal call reads it at least once before it does anything else.
C17_IdleWaitOnlyForNormal ==
  pc # "ready" =>
    /\ (i2c_type # I2C_NORMAL => polls = 0)
    /\ (i2c_type # I2C_NORMAL /\ pc = "done" /\ result # I2C_FIFO_LOAD_ERROR => Triggered)
    /\ (i2c_type = I2C_NORMAL /\ pc \notin {"s_idle", "r_idle"} => polls >= 1)

C17_Witness ==
  pc = "done" /\ fn = "read_start" /\ idleIn = Never /\ polls = 0 /\ Triggered
  /\ result = I2C_SUCCESS /\ length = 2

\* the register accesses a returned send / receive makes, from the arguments
\* of the internal function and the flags it read alone
SendAccesses ==
  LET load == <<Ev("TXFLUSH", 1), Ev("TXEMPTY", FIFO_DEPTH), Ev("TXFLUSH", 0)>>
                \o [k \in 1..length |-> Ev("MTXDATA", data[k])]
  IN IF i2c_type = I2C_NORMAL /\ idleIn = Never THEN <<>>
     ELSE IF length > FIFO_DEPTH THEN load
     ELSE load \o <<Ev("MSA", 2 * slave), Ev("MCTR", length)>>
            \o (IF busyIn = Never THEN <<>> ELSE <<Ev("MSR", 0)>>)
ReadAccesses ==
  IF i2c_type = I2C_NORMAL /\ idleIn = Never THEN <<>>
  ELSE <<Ev("RXFLUSH", 1), Ev("RXEMPTY", 0), Ev("RXFLUSH", 0),
         Ev("MSA", 2 * slave + 1), Ev("MCTR", length), Ev("MSR", 0), Ev("RXCNT", length)>>
         \o (IF arblst \/ err THEN <<>> ELSE [k \in 1..length |-> Ev("MRXDATA", buffer[k])])
\* C18: each public function hands its arguments to the internal function
\* with a fixed policy and, for send1 and read1, the length 1 (send and read
\* Normal, *_start Start, *_continue Continue, *_end End), and adds nothing:
\* the result and the register accesses of a returned call are those the
\* internal function makes for these arguments, so that send1(a, b) and
\* send(a, [b]), read1(a) and read(a, 1) cannot be told apart.
C18_FacadesDelegate ==
  pc # "ready" =>
    /\ (fn \in {"send1", "send", "send_start", "send_continue", "send_end"} <=> op = "send")
    /\ (fn \in {"read1", "read", "read_start", "read_continue", "read_end"} <=> op = "read")
    /\ (fn \in {"send1", "send", "read1", "read"} <=> i2c_type = I2C_NORMAL)
    /\ (fn \in {"send_start", "read_start"} <=> i2c_type = I2C_START)
    /\ (fn \in {"send_continue", "read_continue"} <=> i2c_type = I2C_CONTINUE)
    /\ (fn \in {"send_end", "read_end"} <=> i2c_type = I2C_END)
    /\ (fn \in {"send1", "read1"} => length = 1)
    /\ (op = "send" => Len(data) = length)
    /\ (pc = "done" =>
          /\ result = OutcomeOfInputs
          /\ trace = (IF op = "send" THEN SendAccesses ELSE ReadAccesses))

C18_Witness ==
  /\ pc = "done" /\ fn = "send1" /\ result = I2C_SUCCESS
  /\ trace = <<Ev("TXFLUSH", 1), Ev("TXEMPTY", 8), Ev("TXFLUSH", 0), Ev("MTXDATA", 12),
               Ev("MSA", 78), Ev("MCTR", 1), Ev("MSR", 0)>>

\* writes of the control register the running call made
BurstsTriggered == Cardinality({k \in 1..Len(trace) : trace[k][1] = "MCTR"})
\* C19: one call writes the control register at most once, so it triggers
\* at most one burst and puts at most one START on the bus, also when the
\* burst ended with arbitration lost or no acknowledge: having read such a
\* flag, the call is on its way to the return.
C19_NoRetry ==
  /\ BurstsTriggered <= 1
  /\ Count("START") + Count("RSTART") <= 1
  /\ (Did("MSR") /\ (arblst \/ err) =>
        pc \in {"s_ret", "r_rxwait", "r_drain", "r_ret", "done"})

C19_Witness ==
  pc = "done" /\ fn = "send_start" /\ result = I2C_ERR_NACK /\ BurstsTriggered = 1
  /\ Count("START") = 1

\* position of the first access of the named kind in the running call's record
FirstAt(name) == CHOOSE k \in 1..Len(trace) : trace[k][1] = name /\ \A j \in 1..(k - 1) : trace[j][1] # name
\* C20: a call that returned I2C_SUCCESS, I2C_ERR_ARB_LOST or I2C_ERR_NACK
\* triggered its burst, then polled the busy flag until a poll read it clear
\* (the burst is no longer in flight), and read the error flags only
\* after that; the error flags are never read while the burst is in flight.
C20_ReturnsAfterBurstCompleted ==
  /\ (pc = "done" /\ result \in {I2C_SUCCESS, I2C_ERR_ARB_LOST, I2C_ERR_NACK} =>
        /\ Triggered /\ Did("MSR") /\ FirstAt("MCTR") < FirstAt("MSR")
        /\ busyPolls >= 1 /\ busyIn = 0)
  /\ (Did("MSR") => Triggered /\ busyPolls >= 1 /\ busyIn = 0)
  /\ (Triggered /\ busyIn # 0 => pc \in {"s_busy", "r_busy"} \/ result = I2C_ERR_TIMEOUT)

C20_Witness ==
  pc = "done" /\ fn = "read" /\ result = I2C_SUCCESS /\ length = 2
  /\ busyPolls = 2 /\ busyIn = 0 /\ Did("MSR")

\* C21: under every policy, once a call has programmed its burst, a receive
\* has the receive direction bit in MSA and ACK generation enabled in MCTR,
\* a send has the transmit direction bit and ACK generation disabled, and
\* both have the caller's length in the burst-length field and the
\* caller's address above the direction bit.
C21_DirectionAckAndLength ==
  Triggered =>
    /\ (op = "read" => MSA % 2 = I2C_MSA_DIR_RECEIVE /\ MCTR.ack)
    /\ (op = "send" => MSA % 2 = I2C_MSA_DIR_TRANSMIT /\ ~MCTR.ack)
    /\ MCTR.mblen = length
    /\ MSA \div 2 = slave

C21_Witness ==
  Triggered /\ fn = "read_continue" /\ MSA = 255 /\ MCTR.ack /\ MCTR.mblen = 8

IsRx(e) == e[1] = "RX"
\* the bytes that arrived from the slave, in bus order
RxBytes == LET sel == SelectSeq(wire, IsRx) IN [k \in 1..Len(sel) |-> sel[k][2]]
\* reads of the receive data register the running call made
Drained == Cardinality({k \in 1..Len(trace) : trace[k][1] = "MRXDATA"})
\* C22: a receive call reads the receive data register only after its burst
\* completed (the busy flag was read clear) and after it read an occupancy
\* count of at least `length`; a call that returned I2C_SUCCESS read the
\* register exactly `length` times and buffer[i] holds the i-th byte that
\* arrived.
C22_DrainAfterCountReached ==
  op = "read" =>
    /\ (Drained > 0 =>
          /\ Did("RXCNT") /\ FirstAt("RXCNT") < FirstAt("MRXDATA")
          /\ trace[FirstAt("RXCNT")][2] >= length
          /\ FirstAt("MCTR") < FirstAt("RXCNT")
          /\ busyPolls >= 1 /\ busyIn = 0)
    /\ Drained = idx /\ idx <= length
    /\ (pc = "done" /\ result = I2C_SUCCESS =>
          Drained = length /\ buffer = RxBytes /\ Len(buffer) = length)

C22_Witness ==
  op = "read" /\ pc = "done" /\ result = I2C_SUCCESS /\ length = 4
  /\ buffer = <<170, 171, 172, 255>> /\ Drained = 4
\* ------------------------------------------------------------ LCD driver properties
LcdReturned(f) == lpc = "returned" /\ lfn = f

\* C23: lcd1602_write and lcd1602_init return 0 if every I2C send they issued
\* succeeded and 1 if any of them failed, whatever codes the send1 calls
\* returned. The code ORs the raw codes into status, so the value returned
\* is any of 0..7.
C23_ReturnsZeroOrOne ==
  (LcdReturned("lcd1602_write") \/ LcdReturned("lcd1602_init")) =>
    /\ lret \in {0, 1}
    /\ lret = 0 <=> ~anyFailed
\* lcd1602_write returned 2 after seven sends of which some were not acknowledged
C23_Witness ==
  /\ LcdReturned("lcd1602_write")
  /\ Len(sends) = 7 /\ anyFailed
  /\ lret = I2C_ERR_NACK

\* ------------------------------------------------------------ engine properties, continued
\* the call returned I2C_ERR_TIMEOUT without having polled the busy flag:
\* the return inside the idle wait
IdleTimeoutReturned == pc = "done" /\ result = I2C_ERR_TIMEOUT /\ busyPolls = 0
\* the registers and queues as the call found them (the long idle waits start
\* from the power-on values), nothing seen on the bus
HardwareUntouched ==
  /\ MSA = 0
  /\ MCTR = [ack |-> FALSE, start |-> FALSE, stop |-> FALSE, burstrun |-> FALSE, mblen |-> 0]
  /\ ~txflush /\ ~rxflush
  /\ txfifo = <<>> /\ rxfifo = <<>>
  /\ wire = <<>>

\* C24: a Normal send or receive call that returns I2C_ERR_TIMEOUT from the
\* idle wait has accessed no register but the idle flag: no flush was issued,
\* no byte written to MTXDATA, MSA and MCTR are as before the call, and the
\* caller's receive buffer is as before the call. The same holds all the
\* time the call waits on a bus that never turns idle.
C24_IdleTimeoutWritesNothing ==
  /\ (IdleTimeoutReturned =>
        i2c_type = I2C_NORMAL /\ idleIn = Never /\ polls = I2C_TIMEOUT_COUNT)
  /\ (i2c_type = I2C_NORMAL /\ idleIn = Never /\ pc # "ready" =>
        /\ pc \in {"s_idle", "r_idle"} \/ IdleTimeoutReturned
        /\ trace = <<>>
        /\ HardwareUntouched
        /\ \A k \in 1..Len(buffer) : buffer[k] = Unset)

C24_Witness ==
  /\ IdleTimeoutReturned /\ fn = "read1" /\ Len(buffer) = 1 /\ buffer[1] = Unset
  /\ trace = <<>> /\ HardwareUntouched

\* the kinds of the register accesses the running call made, in order
Kinds(t) == [k \in 1..Len(t) |-> t[k][1]]
IsPrefix(a, b) == Len(a) <= Len(b) /\ \A k \in 1..Len(a) : a[k] = b[k]
\* the order the claim gives for a send of `length` bytes and for a receive
SendOrder ==
  <<"TXFLUSH", "TXEMPTY", "TXFLUSH">> \o [k \in 1..length |-> "MTXDATA"] \o <<"MSA", "MCTR", "MSR">>
ReadOrder ==
  <<"RXFLUSH", "RXEMPTY", "RXFLUSH", "MSA", "MCTR", "MSR", "RXCNT">>
    \o [k \in 1..length |-> "MRXDATA"]

\* C25: the register accesses of a call always come in one order. Send:
\* (Normal only) the idle flag read set, flush issued, queue read empty,
\* flush bit cleared, the bytes written, MSA written, MCTR written, the busy
\* flag polled, the error flags read. No byte is written before the queue
\* was read empty, MSA and MCTR are written only after the last byte, and a
\* receive has flushed its queue and read it empty before it writes MCTR.
C25_FixedOrder ==
  pc # "ready" =>
    /\ (op = "send" => IsPrefix(Kinds(trace), SendOrder))
    /\ (op = "read" => IsPrefix(Kinds(trace), ReadOrder))
    /\ (i2c_type = I2C_NORMAL /\ trace # <<>> => polls >= 1 /\ idleIn = 0)
    /\ (\A k \in 1..Len(trace) :
          /\ trace[k][1] = "TXEMPTY" => trace[k][2] = FIFO_DEPTH
          /\ trace[k][1] = "RXEMPTY" => trace[k][2] = 0)
    /\ (Len(trace) >= 3 => trace[1][2] = 1 /\ trace[3][2] = 0)
    /\ (op = "send" /\ Did("MSA") => TxWrites = data)
    /\ (busyPolls >= 1 => Triggered)
    /\ (Did("MSR") => busyPolls >= 1)

C25_Witness ==
  /\ pc = "done" /\ fn = "send" /\ length = 2 /\ result = I2C_SUCCESS
  /\ Kinds(trace) = SendOrder /\ polls = 2 /\ busyPolls = 2

ReceiveErrors == {I2C_ERR_TIMEOUT, I2C_ERR_ARB_LOST, I2C_ERR_NACK}
BufferUntouched == \A k \in 1..Len(buffer) : buffer[k] = Unset

\* C26: a receive call writes the caller's buffer only on success: when it
\* returns I2C_ERR_TIMEOUT, I2C_ERR_ARB_LOST or I2C_ERR_NACK, every element
\* of the buffer is as before the call and MRXDATA was never read, also when
\* the bytes asked for are waiting in the receive queue; and whenever the
\* call has read MRXDATA its status is I2C_SUCCESS.
C26_BufferWrittenOnlyOnSuccess ==
  op = "read" /\ pc # "ready" =>
    /\ (pc = "done" /\ result \in ReceiveErrors => BufferUntouched /\ Drained = 0)
    /\ (ret_status # I2C_SUCCESS => BufferUntouched /\ Drained = 0)
    /\ (Drained > 0 \/ ~BufferUntouched => ret_status = I2C_SUCCESS /\ Did("RXCNT"))

\* a receive of two bytes lost arbitration after both had arrived, and
\* returned with the bytes left in the queue
C26_Witness ==
  /\ pc = "done" /\ fn = "read" /\ length = 2 /\ result = I2C_ERR_ARB_LOST
  /\ RXFIFOCNT = 2 /\ Did("RXCNT") /\ Drained = 0 /\ BufferUntouched

\* C27: a receive call asked for more bytes than the receive queue holds
\* (9 and up) never returns once its burst is triggered: the queue never
\* holds more than FIFO_DEPTH bytes, the call never gets past the wait for
\* `length` bytes, reads nothing from MRXDATA and returns nothing; a receive
\* never returns I2C_FIFO_LOAD_ERROR.
C27_LongReceiveNeverReturns ==
  /\ RXFIFOCNT <= FIFO_DEPTH
  /\ (op = "read" => result # I2C_FIFO_LOAD_ERROR)
  /\ (op = "read" /\ length > FIFO_DEPTH /\ Triggered =>
        /\ pc \in {"r_busy", "r_flags", "r_rxwait"}
        /\ result = Unset
        /\ Drained = 0 /\ BufferUntouched)

\* nine bytes asked for, the burst went well, the queue is full and the call waits
C27_Witness ==
  /\ pc = "r_rxwait" /\ fn = "read" /\ length = FIFO_DEPTH + 1
  /\ ret_status = I2C_SUCCESS /\ busyIn = 0 /\ RXFIFOCNT = FIFO_DEPTH

\* ------------------------------------------------------------ LCD driver properties, continued
\* the last seven send1 calls made
LastSeven == SubSeq(sends, Len(sends) - 6, Len(sends))
\* the data's two halves on the display's D7..D4 lines, and the control bits
\* that go with them: backlight (bit 3) and register select (bit 0)
UpperHalf == (lcd_data \div 16) * 16
LowerHalf == (lcd_data % 16) * 16
ControlBits == g_lcd_backlight_mode + reg_select

\* C28: lcd1602_write(addr, data, rs) makes exactly seven send1 calls, all
\* to addr: the upper nibble with Enable low, high, low, the lower nibble
\* with Enable low, high, low, then the backlight setting with the read bit
\* set. It makes all seven whatever the earlier ones returned, and the upper
\* nibble goes before the lower one.
C28_SevenSendsUpperFirst ==
  /\ (lpc = "w_send" /\ lcaller = "app" => Len(sends) = wstep - 1 /\ wstep <= 7)
  /\ (LcdReturned("lcd1602_write") => Len(sends) = 7)
  /\ (lpc = "w_ret" =>
        /\ Len(sends) >= 7
        /\ \A k \in 1..7 : LastSeven[k][1] = iic_addr
        /\ [k \in 1..7 |-> LastSeven[k][2]] =
             <<UpperHalf + ControlBits,
               UpperHalf + ControlBits + LATCH_ENABLE,
               UpperHalf + ControlBits,
               LowerHalf + ControlBits,
               LowerHalf + ControlBits + LATCH_ENABLE,
               LowerHalf + ControlBits,
               g_lcd_backlight_mode + READ_ENABLE>>)

\* 0xA5 written to the data register with the backlight on, sends failing in
\* three different ways on the way: 0xA9 0xAD 0xA9 0x59 0x5D 0x59 0x0A
C28_Witness ==
  /\ LcdReturned("lcd1602_write") /\ lcd_data = 165 /\ reg_select = LCD_DATA_REG
  /\ g_lcd_backlight_mode = 8 /\ iic_addr = 63
  /\ lret = 7
  /\ sends = <<<<63, 169>>, <<63, 173>>, <<63, 169>>, <<63, 89>>, <<63, 93>>, <<63, 89>>,
               <<63, 10>>>>

\* how many send1 calls the running lcd1602_write has made
WriteSent == IF lpc = "w_send" THEN wstep - 1 ELSE IF lpc = "w_ret" THEN 7 ELSE 0
\* bit 3 of a byte, in place
BacklightBit(b) == BitAt(b, 3) * LCD_BACKLIGHT_BIT_MASK

\* C29: the stored backlight mode is always 0x00 or 0x08: lcd_set_backlight_on
\* leaves it 0x08, lcd_set_backlight_off leaves it 0x00 and nothing else
\* changes it; every byte lcd1602_write sends (register select 0 or 1) has
\* bit 3 equal to the stored mode; after lcd1602_init has returned the mode
\* is 0x08 whatever its sends returned.
C29_BacklightMode ==
  /\ g_lcd_backlight_mode \in {0, 8}
  /\ (lpc \in {"w_send", "w_ret"} =>
        \A k \in (Len(sends) - WriteSent + 1)..Len(sends) :
          BacklightBit(sends[k][2]) = g_lcd_backlight_mode)
  /\ (LcdReturned("lcd1602_write") =>
        \A k \in 1..Len(sends) : BacklightBit(sends[k][2]) = g_lcd_backlight_mode)
  /\ (LcdReturned("lcd1602_init") \/ LcdReturned("lcd_set_backlight_on") =>
        g_lcd_backlight_mode = 8 /\ sends[Len(sends)] = <<LCD_IIC_ADDRESS, 8>>)
  /\ (LcdReturned("lcd_set_backlight_off") =>
        g_lcd_backlight_mode = 0 /\ sends = <<<<LCD_IIC_ADDRESS, 0>>>>)

\* lcd1602_init returned after 37 sends that failed in three different ways
C29_Witness ==
  /\ LcdReturned("lcd1602_init") /\ g_lcd_backlight_mode = 8
  /\ Len(sends) = 37 /\ lret = 7

====
